---- MODULE Spec2Model ----
(***************************************************************************)
(* Model of scripts/compile-contracts.ts: the build script that compiles   *)
(* the Solidity contracts of every version directory with solcjs, renames  *)
(* the flattened artifacts back into a directory layout, and copies the    *)
(* truffle-v5 contracts and the prebuilt ABIs.                             *)
(*                                                                         *)
(* JavaScript strings are modelled as sequences of one-character strings,  *)
(* so that slicing, splitting and replacing are computed as the code       *)
(* computes them.                                                          *)
(***************************************************************************)
EXTENDS Integers, Sequences, FiniteSets, TLC

VARIABLES
  pc,        \* the function of main that runs next, "done" or "aborted"
  run,       \* the number of the run of the script
  tree,      \* the source tree below contracts/, the output directory aside
  out,       \* the output directory contracts/compiled
  rmdir,     \* history: how rmdirSync of the output directory ended in this run
  truffle,   \* packages/target-truffle-v5-test/contracts
  files,     \* what findFiles returned
  todo,      \* the versions the running loop has yet to visit
  pending,   \* the entries the running inner loop has yet to visit
  invoked,   \* history: the compiler invocations of this run, with their exits
  steps,     \* history: the functions of main entered in this run
  firstOut,  \* history: the output directory as the previous run left it
  arg,       \* the argument of a function applied on its own
  ret        \* the value returned or the error thrown

vars == <<pc, run, tree, out, rmdir, truffle, files, todo, pending, invoked, steps, firstOut, arg, ret>>

pipeline == <<pc, run, tree, out, rmdir, truffle, files, todo, pending, invoked, steps, firstOut>>

(***************************************************************************)
(* Strings                                                                 *)
(***************************************************************************)

Min(S) == CHOOSE x \in S : \A y \in S : x <= y

\* String.prototype.indexOf: the 1-based index of the first occurrence of
\* sep in s, 0 when there is none.
IndexOf(s, sep) ==
  LET cand == {i \in 1..(Len(s) - Len(sep) + 1) : SubSeq(s, i, i + Len(sep) - 1) = sep}
  IN  IF cand = {} THEN 0 ELSE Min(cand)

\* String.prototype.split(sep) for a non-empty separator: every
\* non-overlapping occurrence, left to right, separates two parts.
RECURSIVE Split(_, _)
Split(s, sep) ==
  LET k == IndexOf(s, sep)
  IN  IF k = 0 THEN <<s>>
      ELSE <<SubSeq(s, 1, k - 1)>> \o Split(SubSeq(s, k + Len(sep), Len(s)), sep)

\* Array.prototype.join(sep)
RECURSIVE Join(_, _)
Join(parts, sep) ==
  IF parts = <<>> THEN <<>>
  ELSE IF Len(parts) = 1 THEN parts[1]
  ELSE parts[1] \o sep \o Join(Tail(parts), sep)

\* String.prototype.slice(n)
Slice(s, n) == SubSeq(s, n + 1, Len(s))

\* String.prototype.replace(from, to) with a string pattern: the FIRST
\* occurrence only.
Replace(s, from, to) ==
  LET k == IndexOf(s, from)
  IN  IF k = 0 THEN s
      ELSE SubSeq(s, 1, k - 1) \o to \o SubSeq(s, k + Len(from), Len(s))

\* String.prototype.startsWith
StartsWith(s, p) == Len(s) >= Len(p) /\ SubSeq(s, 1, Len(p)) = p

EndsWith(s, p) == Len(s) >= Len(p) /\ SubSeq(s, Len(s) - Len(p) + 1, Len(s)) = p

US == <<"_">>
SL == <<"/">>
DOT == <<".">>
SOL_MARKER == <<"_", "s", "o", "l", "_">>
DOT_SOL == <<".", "s", "o", "l">>
DOT_JSON == <<".", "j", "s", "o", "n">>
DOT_ABI == <<".", "a", "b", "i">>
ABI == <<"a", "b", "i">>
BIN == <<"b", "i", "n">>
CONTRACTS == <<"c", "o", "n", "t", "r", "a", "c", "t", "s">>
COMPILED == <<"c", "o", "m", "p", "i", "l", "e", "d">>
\* what a template literal prints for an undefined value
UNDEFINED == <<"u", "n", "d", "e", "f", "i", "n", "e", "d">>

\* path.resolve of a path relative to a base directory: the sequence of its
\* segments, with empty and "." segments dropped and ".." stepping up.
RECURSIVE Normalize(_, _)
Normalize(segs, acc) ==
  IF segs = <<>> THEN acc
  ELSE LET s == Head(segs)
       IN  IF s = <<>> \/ s = DOT THEN Normalize(Tail(segs), acc)
           ELSE IF s = <<".", ".">>
                THEN Normalize(Tail(segs), IF acc = <<>> THEN acc ELSE SubSeq(acc, 1, Len(acc) - 1))
                ELSE Normalize(Tail(segs), Append(acc, s))

Resolve(p) == Normalize(Split(p, SL), <<>>)

(***************************************************************************)
(* recoverDirectories                                                      *)
(***************************************************************************)

ProbeBudget == 5

Throw(e) == [ok |-> FALSE, val |-> e]
Return(v) == [ok |-> TRUE, val |-> v]

\* statSync(resolve(cwd, res, segment)).isDirectory(), false when statSync
\* throws.  dirs is the set of directories below cwd (cwd itself is <<>>).
IsDirectory(dirs, p) == Resolve(p) \in dirs

\* RecoverLoop with the budget check returning what it has instead of
\* throwing
RECURSIVE RecoverLoopTruncating(_, _, _, _)
RecoverLoopTruncating(dirs, res, segments, i) ==
  IF segments = <<>> THEN Throw("unexpected exit")
  ELSE IF i >= ProbeBudget THEN Return(res \o Head(segments))
  ELSE LET segment == Head(segments)
           rest == Tail(segments)
       IN  IF IsDirectory(dirs, res \o segment)
           THEN RecoverLoopTruncating(dirs, res \o segment \o SL, rest, i + 1)
           ELSE IF rest # <<>>
                THEN RecoverLoopTruncating(dirs, res, <<segment \o US \o Head(rest)>> \o Tail(rest), i + 1)
                ELSE Return(res \o segment)

\* the while loop of recoverDirectories; i counts the probes made
RECURSIVE RecoverLoop(_, _, _, _)
RecoverLoop(dirs, res, segments, i) ==
  IF segments = <<>> \/ i >= ProbeBudget
  THEN Throw("unexpected exit")
  ELSE LET segment == Head(segments)
           rest == Tail(segments)
       IN  IF IsDirectory(dirs, res \o segment)
           THEN RecoverLoop(dirs, res \o segment \o SL, rest, i + 1)
           ELSE IF rest # <<>>
                THEN RecoverLoop(dirs, res, <<segment \o US \o Head(rest)>> \o Tail(rest), i + 1)
                ELSE Return(res \o segment)

recoverDirectories(dirs, path) == RecoverLoop(dirs, DOT \o SL, Split(path, US), 0)

(***************************************************************************)
(* Specification SpecRecover: recoverDirectories applied to every fragment *)
(* of at most MaxTokens tokens over every directory layout of DirUniverse. *)
(***************************************************************************)

MaxTokens == 6

A == <<"a">>
B == <<"b">>
AB == <<"a", "_", "b">>

TokenSet == {<<>>, A, B}

DirUniverse ==
  { <<A>>, <<B>>, <<AB>>, <<A, A>>, <<A, B>>, <<A, AB>>,
    <<A, A, A>>, <<A, A, A, A>>, <<A, A, A, A, A>> }

\* a layout holds the directory itself and, with a directory, its parents
Layouts ==
  { L \cup {<<>>} : L \in { M \in SUBSET DirUniverse :
      \A d \in M : Len(d) > 1 => SubSeq(d, 1, Len(d) - 1) \in M } }

TokenSeqs == UNION { [1..n -> TokenSet] : n \in 1..MaxTokens }

Fragments == { Join(ts, US) : ts \in TokenSeqs }

NoCall == [fn |-> "none"]

PipelineIdle ==
  /\ pc = "idle" /\ run = 0 /\ tree = <<>> /\ out = <<>> /\ rmdir = "" /\ truffle = {}
  /\ files = <<>>
  /\ todo = <<>> /\ pending = <<>> /\ invoked = <<>> /\ steps = <<>> /\ firstOut = <<>>

InitRecover ==
  /\ PipelineIdle
  /\ \E L \in Layouts, p \in Fragments :
       arg = [fn |-> "recoverDirectories", dirs |-> L, path |-> p]
  /\ ret = NoCall

CallRecoverDirectories ==
  /\ arg.fn = "recoverDirectories"
  /\ ret = NoCall
  /\ ret' = recoverDirectories(arg.dirs, arg.path)
  /\ UNCHANGED <<pipeline, arg>>

NextRecover == CallRecoverDirectories

SpecRecover == InitRecover /\ [][NextRecover]_vars

(***************************************************************************)
(* parsing of an output file name (renameOutputNames, lines 101-110)       *)
(***************************************************************************)

V089 == <<"v", "0", ".", "8", ".", "9">>
V064 == <<"v", "0", ".", "6", ".", "4">>

\* The file name solcjs gives the artifact of contract `name` of the source
\* file contracts/<version>/<relPath>: the source path with every "/" and
\* "." turned into "_", then "_", the contract name, "." and the extension.
SolcOutputName(version, relPath, name, ext) ==
  LET src == CONTRACTS \o SL \o version \o SL \o relPath
      flat == [i \in 1..Len(src) |-> IF src[i] \in {"/", "."} THEN "_" ELSE src[i]]
  IN  flat \o US \o name \o DOT \o ext

\* element i of a JavaScript array, undefined past its end
At(parts, i) == IF i <= Len(parts) THEN [def |-> TRUE, s |-> parts[i]] ELSE [def |-> FALSE, s |-> UNDEFINED]

\* ParseOutputName with a DIRECTORY_PREFIX that lacks its last "_"
ParseOutputNameShortPrefix(version, dirs, outputPath) ==
  LET DIRECTORY_PREFIX == CONTRACTS \o US \o version
      relativePath == Slice(outputPath, Len(DIRECTORY_PREFIX))
      parts == Split(relativePath, SOL_MARKER)
      fragment == At(parts, 1).s
      trailing == At(parts, 2)
      nameParts == Split(trailing.s, DOT)
      contractName == At(nameParts, 1).s
      extension == At(nameParts, 2).s
      recovered == recoverDirectories(dirs, fragment)
  IN  IF ~trailing.def THEN Throw("TypeError")
      ELSE IF ~recovered.ok THEN recovered
      ELSE Return([relativePath |-> relativePath,
                   fragment |-> fragment,
                   trailing |-> trailing.s,
                   filePath |-> recovered.val,
                   contractName |-> contractName,
                   extension |-> extension,
                   newName |-> recovered.val \o SL \o contractName \o DOT \o extension])

\* lines 101-110: the new name of output file outputPath of `version`, whose
\* source directories are dirs.  Throws when the name holds no "_sol_"
\* (split of undefined) and when recoverDirectories throws.
ParseOutputName(version, dirs, outputPath) ==
  LET DIRECTORY_PREFIX == CONTRACTS \o US \o version \o US
      relativePath == Slice(outputPath, Len(DIRECTORY_PREFIX))
      parts == Split(relativePath, SOL_MARKER)
      fragment == At(parts, 1).s
      trailing == At(parts, 2)
      nameParts == Split(trailing.s, DOT)
      contractName == At(nameParts, 1).s
      extension == At(nameParts, 2).s
      recovered == recoverDirectories(dirs, fragment)
  IN  IF ~trailing.def THEN Throw("TypeError")
      ELSE IF ~recovered.ok THEN recovered
      ELSE Return([relativePath |-> relativePath,
                   fragment |-> fragment,
                   trailing |-> trailing.s,
                   filePath |-> recovered.val,
                   contractName |-> contractName,
                   extension |-> extension,
                   newName |-> recovered.val \o SL \o contractName \o DOT \o extension])

(***************************************************************************)
(* Specification SpecParse: a source file P of one version, below a layout *)
(* of directories, declaring one contract; solcjs names its artifact and   *)
(* renameOutputNames parses the name.                                      *)
(***************************************************************************)

MaxDepth == 4

UB == <<"_", "b">>
SOL == <<"s", "o", "l">>
N == <<"N">>
SOLN == <<"s", "o", "l", "_", "N">>
NSOLM == <<"N", "_", "s", "o", "l", "_", "M">>

NameSet == {A, AB, UB, SOL}

ContractNameSet == {N, SOLN, NSOLM}

ExtSet == {ABI, BIN}

SourcePaths == UNION { [1..n -> NameSet] : n \in 1..MaxDepth }

\* the directories a source path lies in
Parents(P) == { SubSeq(P, 1, k) : k \in 0..(Len(P) - 1) }

ExtraDirUniverse == { <<A>>, <<A, A>>, <<A, B>>, <<AB>> }

ExtraLayouts ==
  { M \in SUBSET ExtraDirUniverse :
      \A d \in M : Len(d) > 1 => SubSeq(d, 1, Len(d) - 1) \in M }

InitParse ==
  /\ PipelineIdle
  /\ \E P \in SourcePaths, L \in ExtraLayouts, n \in ContractNameSet, e \in ExtSet :
       arg = [fn |-> "solcjs", version |-> V089, dirs |-> Parents(P) \cup L,
              P |-> P, name |-> n, ext |-> e]
  /\ ret = NoCall

\* solcjs writes the artifact under its flattened name
EmitArtifact ==
  /\ arg.fn = "solcjs"
  /\ ret = NoCall
  /\ ret' = [fn |-> "emitted",
             outputPath |-> SolcOutputName(arg.version, Join(arg.P, SL) \o DOT_SOL, arg.name, arg.ext)]
  /\ UNCHANGED <<pipeline, arg>>

\* renameOutputNames parses it
ParseArtifact ==
  /\ arg.fn = "solcjs"
  /\ ret # NoCall /\ ret.fn = "emitted"
  /\ ret' = [fn |-> "parsed", outputPath |-> ret.outputPath,
             res |-> ParseOutputName(arg.version, arg.dirs, ret.outputPath)]
  /\ UNCHANGED <<pipeline, arg>>

NextParse == EmitArtifact \/ ParseArtifact

SpecParse == InitParse /\ [][NextParse]_vars

(***************************************************************************)
(* The pipeline (main)                                                     *)
(***************************************************************************)

MaxFiles == 2
MaxRuns == 2

Token == <<"T">>
Utils == <<"u">>
Math == <<"M">>
MathLib == <<"L">>
Wrap == <<"w">>

Src(v, P, cs) == [version |-> v, P |-> P, contracts |-> cs]

\* the source files a tree may hold below contracts/v0.8.9
Candidates089 ==
  { Src(V089, <<Token>>, {Token}), Src(V089, <<Utils, Math>>, {MathLib}),
    Src(V089, <<A, B>>, {N}), Src(V089, <<A, UB>>, {N}), Src(V089, <<Wrap>>, {NSOLM}) }

\* and below contracts/v0.6.4
Candidates064 == { Src(V064, <<Token>>, {Token}) }

\* a directory that may lie beside the sources of v0.8.9
ExtraDirs089 == { <<Token>> }

\* the prebuilt ABIs a tree may hold: l/O.json and O.json.json
PrebuiltCandidates ==
  { <<"l", "/", "O">> \o DOT_JSON, <<"O">> \o DOT_JSON \o DOT_JSON }

StaleOut == [exists |-> TRUE, files |-> (<<<<"s", "t", "a", "l", "e">>>> :> [kind |-> "stale"])]
NoOut == [exists |-> FALSE, files |-> <<>>]

NoFiles == [contracts |-> <<>>, prebuiltAbis |-> {}]
NotListed == [listed |-> FALSE, names |-> {}]
Listed(S) == [listed |-> TRUE, names |-> S]

\* the versions that have a directory below contracts/
Versions(t) == { s.version : s \in t.sources }

\* the directories below contracts/<v>
SourceDirs(t, v) == t.dirs[v]

Init ==
  /\ pc = "findFiles"
  /\ run = 1
  /\ \E S89 \in SUBSET Candidates089, S64 \in SUBSET Candidates064,
        X \in SUBSET ExtraDirs089, PB \in SUBSET PrebuiltCandidates :
       /\ Cardinality(S89) <= MaxFiles
       /\ S89 = {} => X = {}
       /\ tree = [sources |-> S89 \cup S64,
                  dirs |-> [v \in Versions([sources |-> S89 \cup S64]) |->
                              UNION { Parents(s.P) : s \in { r \in S89 \cup S64 : r.version = v } }
                                \cup (IF v = V089 THEN X ELSE {})],
                  prebuilt |-> PB]
  /\ out \in {NoOut, StaleOut}
  /\ rmdir = "not called"
  /\ truffle = {}
  /\ files = NoFiles
  /\ todo = <<>>
  /\ pending = NotListed
  /\ invoked = <<>>
  /\ steps = <<"findFiles">>
  /\ firstOut = NoOut
  /\ arg = NoCall
  /\ ret = NoCall

Enter(f) == pc' = f /\ steps' = Append(steps, f)

Abort(e) == pc' = "aborted" /\ ret' = Throw(e)

\* the orders in which readdirSync may list the directories of S
Orders(S) == { f \in [1..Cardinality(S) -> S] : \A i, j \in 1..Cardinality(S) : f[i] = f[j] => i = j }

\* globSync('./**/*.sol') below contracts/<v>
GlobSol(t, v) == { DOT \o SL \o Join(s.P, SL) \o DOT_SOL : s \in { r \in t.sources : r.version = v } }

\* globSync('**/*.json') below contracts/: the prebuilt ABIs of the tree and
\* the .json files the output directory holds when it is scanned
GlobJson(t, o) ==
  t.prebuilt \cup
    { COMPILED \o SL \o Join(q, SL) : q \in { r \in DOMAIN o.files : EndsWith(r[Len(r)], DOT_JSON) } }

\* findFiles (lines 22-50)
findFiles ==
  /\ pc = "findFiles"
  /\ \E order \in Orders(Versions(tree)) :
       files' = [contracts |-> [i \in DOMAIN order |-> [version |-> order[i], filePaths |-> GlobSol(tree, order[i])]],
                 prebuiltAbis |-> GlobJson(tree, out)]
  /\ Enter("removeOutDir")
  /\ UNCHANGED <<rmdir, run, tree, out, truffle, todo, pending, invoked, firstOut, arg, ret>>

\* removeOutDir without the test of e.code: ENOENT is thrown on as well
removeOutDirRethrows ==
  /\ pc = "removeOutDir"
  /\ rmdir' = IF out.exists THEN "removed" ELSE "ENOENT"
  /\ IF out.exists
     THEN /\ out' = NoOut
          /\ Enter("generateABIs")
          /\ todo' = files.contracts
          /\ UNCHANGED ret
     ELSE /\ Abort("ENOENT")
          /\ UNCHANGED <<out, todo, steps>>
  /\ UNCHANGED <<run, tree, truffle, files, pending, invoked, firstOut, arg>>

\* removeOutDir (lines 54-64): rmdirSync removes the directory, or throws
\* ENOENT for a missing one, which is caught
removeOutDir ==
  /\ pc = "removeOutDir"
  /\ rmdir' = IF out.exists THEN "removed" ELSE "ENOENT"
  /\ out' = NoOut
  /\ Enter("generateABIs")
  /\ todo' = files.contracts
  /\ UNCHANGED <<run, tree, truffle, files, pending, invoked, firstOut, arg, ret>>

\* removeOutDir: rmdirSync of an existing directory throws another error,
\* which is thrown on
removeOutDirThrows ==
  /\ pc = "removeOutDir"
  /\ out.exists
  /\ rmdir' = "EACCES"
  /\ Abort("EACCES")
  /\ UNCHANGED <<run, tree, out, truffle, files, todo, pending, invoked, steps, firstOut, arg>>

\* the artifacts solcjs writes for the sources filePaths of version v: for
\* every contract an .abi and a .bin, under the flattened name
Emitted(t, v, filePaths) ==
  UNION { { [version |-> v, P |-> s.P, name |-> n, ext |-> e] : n \in s.contracts, e \in ExtSet } :
            s \in { r \in t.sources : r.version = v /\ DOT \o SL \o Join(r.P, SL) \o DOT_SOL \in filePaths } }

OutputNameOf(u) == SolcOutputName(u.version, Join(u.P, SL) \o DOT_SOL, u.name, u.ext)

Artifact(u) == [kind |-> "artifact", unit |-> u]

\* generateABIs (lines 66-83), one iteration: execSync returns and the
\* artifacts of the version lie in contracts/compiled/<version>
CompileVersion ==
  /\ pc = "generateABIs"
  /\ todo # <<>>
  /\ LET v == Head(todo).version
         units == Emitted(tree, v, Head(todo).filePaths)
         names == { OutputNameOf(u) : u \in units }
         \* of the units written under one name, any one may be written last
     IN  /\ \E last \in SUBSET units :
              /\ \A nm \in names : Cardinality({ u \in last : OutputNameOf(u) = nm }) = 1
              /\ out' = [exists |-> TRUE,
                         files |-> [q \in DOMAIN out.files \cup { <<v, nm>> : nm \in names } |->
                                      IF q \in { <<v, nm>> : nm \in names }
                                      THEN Artifact(CHOOSE u \in last : OutputNameOf(u) = q[2])
                                      ELSE out.files[q]]]
         /\ invoked' = Append(invoked, [version |-> v, exit |-> 0])
  /\ todo' = Tail(todo)
  /\ UNCHANGED <<rmdir, pc, run, tree, truffle, files, pending, steps, firstOut, arg, ret>>

\* CompileVersionThrows with the exit status of the compiler ignored
CompileVersionIgnoresExit ==
  /\ pc = "generateABIs"
  /\ todo # <<>>
  /\ invoked' = Append(invoked, [version |-> Head(todo).version, exit |-> 1])
  /\ todo' = Tail(todo)
  /\ UNCHANGED <<rmdir, pc, run, tree, out, truffle, files, pending, steps, firstOut, arg, ret>>

\* generateABIs, one iteration: the compiler exits non-zero and execSync
\* throws
CompileVersionThrows ==
  /\ pc = "generateABIs"
  /\ todo # <<>>
  /\ invoked' = Append(invoked, [version |-> Head(todo).version, exit |-> 1])
  /\ Abort("solcjs exit 1")
  /\ UNCHANGED <<rmdir, run, tree, out, truffle, files, todo, pending, steps, firstOut, arg>>

\* generateABIs returns
generateABIsReturns ==
  /\ pc = "generateABIs"
  /\ todo = <<>>
  /\ Enter("renameOutputNames")
  /\ todo' = files.contracts
  /\ UNCHANGED <<rmdir, run, tree, out, truffle, files, pending, invoked, firstOut, arg, ret>>

\* the entries of contracts/compiled/<v>, as readdirSync lists them
OutputsOf(o, v) == { q[2] : q \in { r \in DOMAIN o.files : r[1] = v } }

Without(f, q) == [r \in DOMAIN f \ {q} |-> f[r]]

\* Rename that copies: the file stays under its old name as well
RenameCopies(f, from, to) == (to :> f[from]) @@ f

\* renameSync of file from onto to, the directories of to being there
Rename(f, from, to) == (to :> f[from]) @@ Without(f, from)

\* renameOutputNames (lines 92-93): the output directory of the next version
\* is listed.  The directory is there: the compiler wrote the artifacts of
\* at least one contract into it.
ListOutputs ==
  /\ pc = "renameOutputNames"
  /\ todo # <<>>
  /\ ~pending.listed
  /\ OutputsOf(out, Head(todo).version) # {}
  /\ pending' = Listed(OutputsOf(out, Head(todo).version))
  /\ UNCHANGED <<rmdir, pc, run, tree, out, truffle, files, todo, invoked, steps, firstOut, arg, ret>>

\* renameOutputNames (lines 96-115), one iteration: an output is moved to
\* its new name, below the output directory of the version
RenameOutput ==
  /\ pc = "renameOutputNames"
  /\ pending.listed
  /\ \E outputPath \in pending.names :
       LET version == Head(todo).version
           parsed == ParseOutputName(version, SourceDirs(tree, version), outputPath)
       IN  /\ parsed.ok
           /\ out' = [out EXCEPT !.files =
                        Rename(@, <<version, outputPath>>, <<version>> \o Resolve(parsed.val.newName))]
           /\ pending' = Listed(pending.names \ {outputPath})
  /\ UNCHANGED <<rmdir, pc, run, tree, truffle, files, todo, invoked, steps, firstOut, arg, ret>>

\* renameOutputNames, one iteration: the name of an output cannot be parsed
RenameOutputThrows ==
  /\ pc = "renameOutputNames"
  /\ pending.listed
  /\ \E outputPath \in pending.names :
       LET version == Head(todo).version
           parsed == ParseOutputName(version, SourceDirs(tree, version), outputPath)
       IN  /\ ~parsed.ok
           /\ Abort(parsed.val)
  /\ UNCHANGED <<rmdir, run, tree, out, truffle, files, todo, pending, invoked, steps, firstOut, arg>>

\* renameOutputNames (lines 91, 117-121): the outputs of the version are
\* renamed; on to the next version
NextVersion ==
  /\ pc = "renameOutputNames"
  /\ pending = Listed({})
  /\ todo' = Tail(todo)
  /\ pending' = NotListed
  /\ UNCHANGED <<rmdir, pc, run, tree, out, truffle, files, invoked, steps, firstOut, arg, ret>>

\* renameOutputNames returns
renameOutputNamesReturns ==
  /\ pc = "renameOutputNames"
  /\ todo = <<>>
  /\ Enter("copyTruffleV5")
  /\ UNCHANGED <<rmdir, run, tree, out, truffle, files, todo, pending, invoked, firstOut, arg, ret>>

\* copyTruffleV5 (lines 124-134): contracts/v0.6.4 is copied over the
\* directory of the truffle-v5 tests
copyTruffleV5 ==
  /\ pc = "copyTruffleV5"
  /\ V064 \in Versions(tree)
  /\ truffle' = truffle \cup { [version |-> s.version, P |-> s.P] : s \in { r \in tree.sources : r.version = V064 } }
  /\ Enter("copyPrebuiltABIs")
  /\ pending' = Listed(files.prebuiltAbis)
  /\ UNCHANGED <<rmdir, run, tree, out, files, todo, invoked, firstOut, arg, ret>>

\* copyTruffleV5: there is no contracts/v0.6.4 and copySync throws
copyTruffleV5Throws ==
  /\ pc = "copyTruffleV5"
  /\ V064 \notin Versions(tree)
  /\ Abort("ENOENT")
  /\ UNCHANGED <<rmdir, run, tree, out, truffle, files, todo, pending, invoked, steps, firstOut, arg>>

\* whether contracts/<filepath> is a file when it is to be copied
IsFile(t, o, filepath) ==
  \/ filepath \in t.prebuilt
  \/ /\ StartsWith(filepath, COMPILED \o SL)
     /\ Tail(Resolve(filepath)) \in DOMAIN o.files

ContentOf(t, o, filepath) ==
  IF filepath \in t.prebuilt THEN [kind |-> "prebuilt", path |-> filepath]
  ELSE o.files[Tail(Resolve(filepath))]

\* where copyPrebuiltABIs copies filepath to, below contracts/compiled
AbiPath(filepath) == Resolve(Replace(filepath, DOT_JSON, DOT_ABI))

\* copyPrebuiltABIs (lines 137-139), one iteration
CopyPrebuiltABI ==
  /\ pc = "copyPrebuiltABIs"
  /\ \E filepath \in pending.names :
       /\ IsFile(tree, out, filepath)
       /\ out' = [exists |-> TRUE,
                  files |-> (AbiPath(filepath) :> ContentOf(tree, out, filepath)) @@ out.files]
       /\ pending' = Listed(pending.names \ {filepath})
  /\ UNCHANGED <<rmdir, pc, run, tree, truffle, files, todo, invoked, steps, firstOut, arg, ret>>

\* copyPrebuiltABIs, one iteration: the file found by findFiles is gone and
\* copySync throws
CopyPrebuiltABIThrows ==
  /\ pc = "copyPrebuiltABIs"
  /\ \E filepath \in pending.names : ~IsFile(tree, out, filepath)
  /\ Abort("ENOENT")
  /\ UNCHANGED <<rmdir, run, tree, out, truffle, files, todo, pending, invoked, steps, firstOut, arg>>

\* copyPrebuiltABIs and main return
copyPrebuiltABIsReturns ==
  /\ pc = "copyPrebuiltABIs"
  /\ pending = Listed({})
  /\ pc' = "done"
  /\ pending' = NotListed
  /\ UNCHANGED <<rmdir, run, tree, out, truffle, files, todo, invoked, steps, firstOut, arg, ret>>

\* the script is run again on the tree as it is
RunAgain ==
  /\ pc = "done"
  /\ run < MaxRuns
  /\ run' = run + 1
  /\ pc' = "findFiles"
  /\ steps' = <<"findFiles">>
  /\ invoked' = <<>>
  /\ files' = NoFiles
  /\ firstOut' = out
  /\ rmdir' = "not called"
  /\ UNCHANGED <<tree, out, truffle, todo, pending, arg, ret>>

Next ==
  \/ findFiles
  \/ removeOutDir
  \/ removeOutDirThrows
  \/ CompileVersion
  \/ CompileVersionThrows
  \/ generateABIsReturns
  \/ ListOutputs
  \/ RenameOutput
  \/ RenameOutputThrows
  \/ NextVersion
  \/ renameOutputNamesReturns
  \/ copyTruffleV5
  \/ copyTruffleV5Throws
  \/ CopyPrebuiltABI
  \/ CopyPrebuiltABIThrows
  \/ copyPrebuiltABIsReturns
  \/ RunAgain

Spec == Init /\ [][Next]_vars

(***************************************************************************)
(* Properties                                                              *)
(***************************************************************************)

NumTokens(path) == Len(Split(path, US))

\* the returned path with its leading "./" dropped and every "/" put back
\* to the "_" it was split at
Unsplit(p) == Join(Split(Slice(p, 2), SL), US)

Returned == arg.fn = "recoverDirectories" /\ ret # NoCall

Parsed == arg.fn = "solcjs" /\ ret # NoCall /\ ret.fn = "parsed"

\* the source path as recoverDirectories is to return it
Expected(P) == DOT \o SL \o Join(P, SL)

RoundTrips ==
  /\ ret.res.ok
  /\ ret.res.val.filePath = Expected(arg.P)
  /\ ret.res.val.contractName = arg.name
  /\ ret.res.val.extension = arg.ext

\* the "_"-delimited proper prefixes of a name, the empty one included when
\* the name starts with "_"
TokenPrefixes(name) ==
  LET toks == Split(name, US)
  IN  { Join(SubSeq(toks, 1, j), US) : j \in 1..(Len(toks) - 1) }

\* No component of P has a proper token prefix that names a directory beside
\* it (an empty prefix names the directory the component lies in), and P
\* without its extension is not itself a directory.
Unambiguous(dirs, P) ==
  /\ \A k \in 1..Len(P) : \A q \in TokenPrefixes(P[k]) :
        ~IsDirectory(dirs, Join(SubSeq(P, 1, k - 1) \o <<q>>, SL))
  /\ P \notin dirs

\* "_sol_" occurs in the flattened name once, as the marker
MarkerOnce(P, name) ==
  /\ IndexOf(Join(P, US) \o SOL_MARKER, SOL_MARKER) = Len(Join(P, US)) + 1
  /\ IndexOf(name, SOL_MARKER) = 0

\* C2 as stated: every source path of depth at most 4 whose directories
\* exist is recovered exactly, with its contract name and extension,
\* whatever its names and whatever other directories exist.
C2_RoundTripAlways == Parsed /\ Len(arg.P) <= 4 => RoundTrips

\* C2 amended: the source path, contract name and extension are recovered
\* exactly when the flattened path has at most ProbeBudget tokens, no proper
\* token prefix of a component names a directory beside it, the path without
\* its extension is no directory, and "_sol_" occurs only as the marker.
C2_RoundTrip ==
  Parsed /\ NumTokens(Join(arg.P, US)) <= ProbeBudget
         /\ Unambiguous(arg.dirs, arg.P) /\ MarkerOnce(arg.P, arg.name)
    => RoundTrips

C2_Witness ==
  /\ Parsed /\ Len(arg.P) = 4 /\ arg.P[2] = AB /\ <<A>> \in arg.dirs
  /\ Unambiguous(arg.dirs, arg.P) /\ MarkerOnce(arg.P, arg.name)
  /\ RoundTrips

\* C3: with more tokens than the probe budget recovery throws, and a path
\* that is returned holds every token of the fragment: putting "_" back for
\* "/" gives the fragment.
C3_NoSilentTruncation ==
  Returned =>
    /\ NumTokens(arg.path) > ProbeBudget => ~ret.ok
    /\ ret.ok => Unsplit(ret.val) = arg.path

\* five nested directories and a file name: depth 6
C3_Witness ==
  /\ Returned /\ ~ret.ok
  /\ arg.path = Join(<<A, A, A, A, A, B>>, US)
  /\ <<A, A, A, A, A>> \in arg.dirs

\* the fragment renameOutputNames hands to recoverDirectories
FragmentOf(version, outputPath) ==
  Split(Slice(outputPath, Len(CONTRACTS \o US \o version \o US)), SOL_MARKER)[1]

\* C9: recovery throws only when the budget is used up with tokens left.
C9_ThrowsOnlyOverBudget ==
  Parsed /\ ~ret.res.ok => NumTokens(FragmentOf(arg.version, ret.outputPath)) > ProbeBudget

\* C10: the remainder is split in two parts that put back together, with
\* the marker between them, give the remainder.
C10_SplitLossless ==
  Parsed /\ ret.res.ok =>
    ret.res.val.fragment \o SOL_MARKER \o ret.res.val.trailing = ret.res.val.relativePath

\* every artifact the compiler emits for the tree
AllUnits(t) == UNION { Emitted(t, v, GlobSol(t, v)) : v \in Versions(t) }

FileName(u) == u.name \o DOT \o u.ext

\* <version>/<D>/<N>.<E>: beside the source file
BesideSource(u) == <<u.version>> \o SubSeq(u.P, 1, Len(u.P) - 1) \o <<FileName(u)>>

\* <version>/<D>/<F>/<N>.<E>: in a directory named after the source file
BelowSourceName(u) == <<u.version>> \o u.P \o <<FileName(u)>>

\* every source path of the tree is one renameOutputNames recovers
TreeRecoverable(t) ==
  \A s \in t.sources :
    /\ NumTokens(Join(s.P, US)) <= ProbeBudget
    /\ Unambiguous(SourceDirs(t, s.version), s.P)
    /\ \A n \in s.contracts : MarkerOnce(s.P, n)

\* C1 as stated: after a completed run every artifact lies at
\* <version>/<D>/<N>.<E>, the name of the source file being no part of it.
C1_ArtifactBesideSource ==
  pc = "done" =>
    \A u \in AllUnits(tree) :
      BesideSource(u) \in DOMAIN out.files /\ out.files[BesideSource(u)] = Artifact(u)

\* C1 amended: after a completed run over a tree whose source paths are all
\* recoverable, every artifact lies at <version>/<D>/<F>/<N>.<E>, and the
\* output directory of a version holds nothing else.
C1_ArtifactBelowSourceName ==
  pc = "done" /\ TreeRecoverable(tree) =>
    /\ \A u \in AllUnits(tree) :
         BelowSourceName(u) \in DOMAIN out.files /\ out.files[BelowSourceName(u)] = Artifact(u)
    /\ \A q \in DOMAIN out.files :
         q[1] \in Versions(tree) => \E u \in AllUnits(tree) : q = BelowSourceName(u)

C1_Witness ==
  /\ pc = "done" /\ TreeRecoverable(tree)
  /\ Src(V089, <<Token>>, {Token}) \in tree.sources
  /\ Src(V089, <<Utils, Math>>, {MathLib}) \in tree.sources
  /\ { <<V089, Token, Token \o DOT_ABI>>, <<V089, Token, Token \o DOT \o BIN>>,
       <<V089, Utils, Math, MathLib \o DOT_ABI>> } \subseteq DOMAIN out.files

\* C4: after a completed run no flattened name is left and every artifact
\* the compiler emitted is a file of the output directory: none was moved
\* onto another.
C4_NoArtifactLost ==
  pc = "done" =>
    \A u \in AllUnits(tree) :
      /\ <<u.version, OutputNameOf(u)>> \notin DOMAIN out.files
      /\ \E q \in DOMAIN out.files : out.files[q] = Artifact(u)

Last(sq) == sq[Len(sq)]

\* C5: the compiler is invoked for the versions in the order found, one
\* after the other; only the last invocation can have failed, and then the
\* run is aborted inside generateABIs, no later function having been entered.
C5_CompilerFailureAborts ==
  /\ Len(invoked) <= Len(files.contracts)
  /\ \A i \in 1..Len(invoked) :
       /\ invoked[i].version = files.contracts[i].version
       /\ i < Len(invoked) => invoked[i].exit = 0
  /\ invoked # <<>> /\ Last(invoked).exit # 0 =>
       /\ pc = "aborted"
       /\ steps = <<"findFiles", "removeOutDir", "generateABIs">>

\* the compiler of the first of two versions fails
C5_Witness ==
  /\ pc = "aborted"
  /\ Len(files.contracts) = 2
  /\ Len(invoked) = 1 /\ invoked[1].exit = 1
  /\ ret = Throw("solcjs exit 1")

\* C6: a missing output directory raises no error and generateABIs is
\* entered; another failure of the removal aborts the run before any compiler
\* invocation; and generateABIs starts without an output directory.
C6_OutputReset ==
  /\ rmdir = "ENOENT" => Len(steps) >= 3 /\ steps[3] = "generateABIs"
  /\ rmdir = "EACCES" =>
       pc = "aborted" /\ invoked = <<>> /\ steps = <<"findFiles", "removeOutDir">>
  /\ pc = "generateABIs" /\ invoked = <<>> => rmdir \in {"ENOENT", "removed"} /\ ~out.exists

\* the output directory was missing and the compiler is about to be invoked
C6_Witness ==
  rmdir = "ENOENT" /\ pc = "generateABIs" /\ invoked = <<>> /\ todo # <<>> /\ ~out.exists

\* filepath with its final ".json" rewritten to ".abi"
ExtensionRewritten(filepath) == SubSeq(filepath, 1, Len(filepath) - Len(DOT_JSON)) \o DOT_ABI

\* C7: after a completed run every prebuilt ABI of the tree lies in the
\* output directory at its own path, the final ".json" rewritten to ".abi".
C7_PrebuiltCopied ==
  pc = "done" =>
    \A p \in tree.prebuilt :
      /\ Resolve(ExtensionRewritten(p)) \in DOMAIN out.files
      /\ out.files[Resolve(ExtensionRewritten(p))] = [kind |-> "prebuilt", path |-> p]

\* C8: a run that follows a completed run is aborted only by a failure of
\* the removal or of the compiler, and when it completes it leaves the output
\* directory as the run before left it.
C8_Idempotent ==
  run >= 2 =>
    /\ pc = "aborted" => ret \in {Throw("EACCES"), Throw("solcjs exit 1")}
    /\ pc = "done" => out = firstOut

====
